---- MODULE Spec2Model ----
(***************************************************************************)
(* The SQLite sink of consumers/consumer_alvaro.py (init_db,               *)
(* insert_message, delete_message, the read queries, the pandas trend      *)
(* analytics and the test driver main) and the environment-backed getters  *)
(* of utils/utils_config.py.                                               *)
(*                                                                         *)
(* Python and SQLite values are records [t |-> type, v |-> text]: every    *)
(* payload is kept as its text so that values of different types can be    *)
(* compared; conversions between types are the finite tables below.        *)
(***************************************************************************)
EXTENDS Integers, Sequences, FiniteSets, TLC

VARIABLES db_path, db, openConns, lastOp, persisted, nWellFormed, dbErrors,
          environ, lastConfig

vars == <<db_path, db, openConns, lastOp, persisted, nWellFormed, dbErrors,
          environ, lastConfig>>

sinkVars == <<db_path, db, openConns, lastOp, persisted, nWellFormed, dbErrors>>

configVars == <<environ, lastConfig>>

(***************************************************************************)
(* Bounds.                                                                 *)
(***************************************************************************)
\* well-formed insert_message calls made against one creation of the table
MaxCalls == 2

\* connections that may be open and not yet finalized at one time
MaxOpenConns == 3

(***************************************************************************)
(* Python values and SQLite storage classes.                               *)
(***************************************************************************)
PyNone == [t |-> "NoneType", v |-> ""]

PyStr(s) == [t |-> "str", v |-> s]

PyInt(s) == [t |-> "int", v |-> s]

PyFloat(s) == [t |-> "float", v |-> s]

PyList(s) == [t |-> "list", v |-> s]

SqlNull == [t |-> "null", v |-> ""]

\* sqlite3 adapts None, int, float, str (and bytes); any other type raises
\* ProgrammingError "Error binding parameter: type ... is not supported".
Bindable(pv) == pv.t \in {"NoneType", "int", "float", "str"}

Bind(pv) ==
    CASE pv.t = "NoneType" -> SqlNull
      [] pv.t = "int"      -> [t |-> "integer", v |-> pv.v]
      [] pv.t = "float"    -> [t |-> "real", v |-> pv.v]
      [] pv.t = "str"      -> [t |-> "text", v |-> pv.v]

\* Text that SQLite reads as a numeric literal, and the value it reads.
NumericText == {"7", "0.5"}

NumericOfText(s) ==
    CASE s = "7"   -> [t |-> "integer", v |-> "7"]
      [] s = "0.5" -> [t |-> "real", v |-> "0.5"]

\* An integer forced to floating point (REAL affinity).
RealOfInteger(s) ==
    CASE s = "1"  -> "1.0"
      [] s = "7"  -> "7.0"
      [] s = "42" -> "42.0"

\* Reals that are exactly an integer, and that integer (INTEGER affinity).
IntegralReal == {"3.0"}

IntegerOfReal(s) == CASE s = "3.0" -> "3"

\* Column affinity, "Datatypes In SQLite" section 3: the value actually stored.
Affinity(aff, sv) ==
    CASE aff = "TEXT" ->
            IF sv.t \in {"integer", "real"} THEN [t |-> "text", v |-> sv.v] ELSE sv
      [] aff = "REAL" ->
            LET n == IF sv.t = "text" /\ sv.v \in NumericText
                     THEN NumericOfText(sv.v) ELSE sv
            IN  IF n.t = "integer"
                THEN [t |-> "real", v |-> RealOfInteger(n.v)] ELSE n
      [] aff = "INTEGER" ->
            LET n == IF sv.t = "text" /\ sv.v \in NumericText
                     THEN NumericOfText(sv.v) ELSE sv
            IN  IF n.t = "real" /\ n.v \in IntegralReal
                THEN [t |-> "integer", v |-> IntegerOfReal(n.v)] ELSE n

(***************************************************************************)
(* The table streamed_messages.                                            *)
(***************************************************************************)
Keys == {"message", "author", "timestamp", "category", "sentiment",
         "keyword_mentioned", "message_length"}

ColumnAffinity(col) ==
    CASE col = "sentiment"      -> "REAL"
      [] col = "message_length" -> "INTEGER"
      [] OTHER                  -> "TEXT"

\* The row as the INSERT stores it: every bound value under its column's affinity.
StoredRow(id, message) ==
    [col \in Keys \cup {"id"} |->
        IF col = "id" THEN id
        ELSE Affinity(ColumnAffinity(col), Bind(message[col]))]

Max(a, b) == IF a >= b THEN a ELSE b

MaxRowid(rows) ==
    IF rows = <<>> THEN 0
    ELSE CHOOSE m \in {rows[i].id : i \in 1..Len(rows)} :
            \A i \in 1..Len(rows) : rows[i].id <= m

\* A rowid chosen as for a plain INTEGER PRIMARY KEY: one more than the largest
\* rowid now in the table.
NextRowidNoAutoincrement(rows, seq) == MaxRowid(rows) + 1

\* INTEGER PRIMARY KEY AUTOINCREMENT: one more than the largest rowid the table
\* has ever held (sqlite_sequence).
NextRowid(rows, seq) == Max(seq, MaxRowid(rows)) + 1

(***************************************************************************)
(* Messages handed to insert_message.                                      *)
(***************************************************************************)
\* main's test message, lines 190-198.
test_message ==
    [message           |-> PyStr("I just shared a meme! It was amazing."),
     author            |-> PyStr("Charlie"),
     timestamp         |-> PyStr("2025-01-29 14:35:20"),
     category          |-> PyStr("humor"),
     sentiment         |-> PyFloat("0.87"),
     keyword_mentioned |-> PyStr("meme"),
     message_length    |-> PyInt("42")]

\* test_message without one key.
Without(message, key) == [k \in (DOMAIN message) \ {key} |-> message[k]]

MessageNames ==
    {"test_message", "coerced", "wrong_shape", "unbindable"}
    \cup {"no_message", "no_author", "no_timestamp", "no_category",
          "no_sentiment", "no_keyword_mentioned", "no_message_length"}

MessageOf(name) ==
    CASE name = "test_message" -> test_message
      \* values its columns coerce: a numeric text sentiment, an int keyword,
      \* an integral float length
      [] name = "coerced" ->
            [message           |-> PyStr("hi"),
             author            |-> PyStr("A"),
             timestamp         |-> PyStr("2025-01-01T00:00:00"),
             category          |-> PyStr("News"),
             sentiment         |-> PyStr("0.5"),
             keyword_mentioned |-> PyInt("7"),
             message_length    |-> PyFloat("3.0")]
      \* a sentiment that is no number, a length that is no integer, JSON
      \* null in the grouped fields
      [] name = "wrong_shape" ->
            [message           |-> PyStr("hi"),
             author            |-> PyNone,
             timestamp         |-> PyStr("2025-01-01T00:00:00"),
             category          |-> PyNone,
             sentiment         |-> PyStr("abc"),
             keyword_mentioned |-> PyNone,
             message_length    |-> PyFloat("2.5")]
      \* a JSON array where a scalar is expected
      [] name = "unbindable" ->
            [test_message EXCEPT !.sentiment = PyList("[1]")]
      [] name = "no_message"           -> Without(test_message, "message")
      [] name = "no_author"            -> Without(test_message, "author")
      [] name = "no_timestamp"         -> Without(test_message, "timestamp")
      [] name = "no_category"          -> Without(test_message, "category")
      [] name = "no_sentiment"         -> Without(test_message, "sentiment")
      [] name = "no_keyword_mentioned" -> Without(test_message, "keyword_mentioned")
      [] name = "no_message_length"    -> Without(test_message, "message_length")

\* A message insert_message can store: all seven keys, each value bindable.
WellFormed(message) ==
    /\ Keys \subseteq DOMAIN message
    /\ \A k \in Keys : Bindable(message[k])

(***************************************************************************)
(* The database file at db_path.                                           *)
(*   dir    the directory of db_path exists                                *)
(*   table  streamed_messages exists                                       *)
(*   rows   its rows, in rowid order                                       *)
(*   seq    its sqlite_sequence entry (0 when there is none)               *)
(* Every operation returns [ok, db, conns]: whether it ran to its success  *)
(* log line, the database afterwards, and the connections it opened and    *)
(* did not close.                                                          *)
(***************************************************************************)
DbPaths == {"buzz.sqlite", "data/buzz.sqlite"}

\* os.path.dirname
Dirname(path) ==
    CASE path = "buzz.sqlite"      -> ""
      [] path = "data/buzz.sqlite" -> "data"

EmptyDb(path) == [dir |-> Dirname(path) = "", table |-> FALSE, rows |-> <<>>, seq |-> 0]

InitFaults == {"none", "makedirs", "connect", "drop", "create"}

WriteFaults == {"none", "connect", "commit"}

ReadFaults == {"none", "connect", "execute"}

Outcome(ok, d, conns) == [ok |-> ok, db |-> d, conns |-> conns]

\* init_db, lines 24-50. os.makedirs("") raises FileNotFoundError, so a db_path
\* with no directory part fails before connecting. DROP and CREATE are DDL, which
\* sqlite3 runs outside a transaction: a DROP that ran stays when CREATE fails.
\* DROP removes the table's sqlite_sequence entry with it. Every exception is
\* logged and swallowed; the with block commits and leaves the connection open.
init_db(path, d, fault) ==
    IF Dirname(path) = "" \/ fault = "makedirs" THEN Outcome(FALSE, d, 0)
    ELSE IF fault = "connect" THEN Outcome(FALSE, [d EXCEPT !.dir = TRUE], 0)
    ELSE IF fault = "drop" THEN Outcome(FALSE, [d EXCEPT !.dir = TRUE], 1)
    ELSE IF fault = "create"
         THEN Outcome(FALSE, [dir |-> TRUE, table |-> FALSE, rows |-> <<>>, seq |-> 0], 1)
    ELSE Outcome(TRUE, [dir |-> TRUE, table |-> TRUE, rows |-> <<>>, seq |-> 0], 1)

\* insert_message that stores the row before the commit fails and does not roll
\* back.
insert_message_no_rollback(message, d, fault) ==
    IF ~d.dir \/ fault = "connect" THEN Outcome(FALSE, d, 0)
    ELSE IF ~WellFormed(message) \/ ~d.table THEN Outcome(FALSE, d, 1)
    ELSE LET id == NextRowid(d.rows, d.seq)
         IN  Outcome(fault = "none",
                     [d EXCEPT !.rows = Append(d.rows, StoredRow(id, message)),
                               !.seq = id], 1)

\* insert_message, lines 58-87. message["k"] raises KeyError for an absent key,
\* the binding raises for an unsupported type, the INSERT raises when the table
\* is missing; the with block rolls back on any exception and the except clause
\* logs and swallows it. The connection is left open by the with block.
insert_message(message, d, fault) ==
    IF ~d.dir \/ fault = "connect" THEN Outcome(FALSE, d, 0)
    ELSE IF ~(Keys \subseteq DOMAIN message) THEN Outcome(FALSE, d, 1)
    ELSE IF \E k \in Keys : ~Bindable(message[k]) THEN Outcome(FALSE, d, 1)
    ELSE IF ~d.table \/ fault = "commit" THEN Outcome(FALSE, d, 1)
    ELSE LET id == NextRowid(d.rows, d.seq)
         IN  Outcome(TRUE,
                     [d EXCEPT !.rows = Append(d.rows, StoredRow(id, message)),
                               !.seq = id], 1)

\* delete_message, lines 95-105. locked: another connection holds a read lock on
\* the file, so the commit ends in OperationalError "database is locked". A
\* message_id that matches no row deletes nothing and succeeds.
delete_message(message_id, d, fault, locked) ==
    IF ~d.dir \/ fault = "connect" THEN Outcome(FALSE, d, 0)
    ELSE IF ~d.table \/ fault = "commit" \/ locked
         THEN Outcome(FALSE, d, 1)
    ELSE Outcome(TRUE,
                 [d EXCEPT !.rows = SelectSeq(d.rows, LAMBDA r : r.id # message_id)],
                 1)

(***************************************************************************)
(* The read queries. A DataFrame is [columns, rows]: pd.DataFrame() has    *)
(* neither. Each query closes its connection only after read_sql_query     *)
(* returned; the except clause returns an empty DataFrame without closing. *)
(***************************************************************************)
EmptyDataFrame == [columns |-> FALSE, rows |-> <<>>]

Frame(ok, df, conns) == [ok |-> ok, df |-> df, conns |-> conns]

\* The shared shape of the four queries: connect, run the SELECT, close.
read_sql_query(d, fault, selected) ==
    IF ~d.dir \/ fault = "connect" THEN Frame(FALSE, EmptyDataFrame, 0)
    ELSE IF ~d.table \/ fault = "execute" THEN Frame(FALSE, EmptyDataFrame, 1)
    ELSE Frame(TRUE, [columns |-> TRUE, rows |-> selected], 0)

\* get_all_messages, lines 112-121.
get_all_messages(d, fault) == read_sql_query(d, fault, d.rows)

\* column = ? : NULL equals nothing; the parameter takes the column's affinity.
SqlEquals(col, stored, param) ==
    /\ stored.t # "null"
    /\ Bindable(param)
    /\ param.t # "NoneType"
    /\ Affinity(ColumnAffinity(col), Bind(param)) = stored

\* get_messages_by_category, lines 136-145.
get_messages_by_category(d, category, fault) ==
    read_sql_query(d, fault,
        SelectSeq(d.rows, LAMBDA r : SqlEquals("category", r.category, category)))

\* Binary collation of the timestamps the messages carry.
TextRank(s) ==
    CASE s = "2025-01-01T00:00:00" -> 1
      [] s = "2025-01-29 14:35:20" -> 2

Timestamps == {"2025-01-01T00:00:00", "2025-01-29 14:35:20"}

\* get_messages_in_time_range, lines 147-156: timestamp BETWEEN ? AND ?.
get_messages_in_time_range(d, start_time, end_time, fault) ==
    read_sql_query(d, fault,
        SelectSeq(d.rows, LAMBDA r :
            /\ r.timestamp.t = "text"
            /\ TextRank(start_time) <= TextRank(r.timestamp.v)
            /\ TextRank(r.timestamp.v) <= TextRank(end_time)))

\* The number of rows whose column col holds value.
CountOf(rows, col, value) ==
    Cardinality({i \in 1..Len(rows) : rows[i][col] = value})

\* The orderings of keys by descending count; equal counts come in any order.
DescendingOrders(rows, col, keys) ==
    LET n == Cardinality(keys)
    IN  IF n = 0 THEN {<<>>}
        ELSE {s \in [1..n -> keys] :
                /\ \A i, j \in 1..n : i # j => s[i] # s[j]
                /\ \A i \in 1..(n - 1) :
                      CountOf(rows, col, s[i]) >= CountOf(rows, col, s[i + 1])}

Counted(rows, col, order) ==
    [i \in 1..Len(order) |-> [key |-> order[i], count |-> CountOf(rows, col, order[i])]]

Prefix(s, n) == IF Len(s) <= n THEN s ELSE SubSeq(s, 1, n)

\* get_keywords_by_frequency, lines 124-133: SQL GROUP BY keeps NULL as a group;
\* ORDER BY frequency DESC LIMIT top_n. The set of frames the query can return.
get_keywords_by_frequency(d, top_n, fault) ==
    LET keys == {d.rows[i].keyword_mentioned : i \in 1..Len(d.rows)}
    IN  {read_sql_query(d, fault,
                        Prefix(Counted(d.rows, "keyword_mentioned", order), top_n)) :
            order \in DescendingOrders(d.rows, "keyword_mentioned", keys)}

\* top_n: int = 10
DefaultTopN == 10

(***************************************************************************)
(* The trend analytics: df.groupby(col)[col].count()                       *)
(* .sort_values(ascending=False).to_dict(). groupby drops the rows whose   *)
(* key is null; a frame without the column raises KeyError. A dict is the  *)
(* sequence of its entries in insertion order. Each operator is the set of *)
(* [raised, result] the call can end in.                                   *)
(***************************************************************************)
GroupKeys(rows, col) ==
    {rows[i][col] : i \in {j \in 1..Len(rows) : rows[j][col].t # "null"}}

analyze_trends(df, col) ==
    IF ~df.columns THEN {[raised |-> TRUE, result |-> <<>>]}
    ELSE {[raised |-> FALSE, result |-> Counted(df.rows, col, order)] :
            order \in DescendingOrders(df.rows, col, GroupKeys(df.rows, col))}

\* lines 159-162
analyze_keyword_trends(df) == analyze_trends(df, "keyword_mentioned")

\* lines 165-168
analyze_category_trends(df) == analyze_trends(df, "category")

\* lines 170-173
analyze_author_trends(df) == analyze_trends(df, "author")

(***************************************************************************)
(* main, lines 179-230.                                                    *)
(***************************************************************************)
\* cursor.fetchone() on SELECT id ... WHERE message = ? AND author = ?: the rows
\* that match, in the rowid order of the table scan.
Matching(rows, message) ==
    SelectSeq(rows, LAMBDA r :
        /\ SqlEquals("message", r.message, message["message"])
        /\ SqlEquals("author", r.author, message["author"]))

\* Lines 200-218: insert test_message, look its id up by message and author on a
\* second connection, delete that id through delete_message's own connection.
\* fetchone leaves the SELECT active while a further row matches, and the read
\* lock it holds makes delete_message's commit fail with "database is locked".
\* Both except clauses swallow; the outer with block leaves its connection open.
main_round_trip(d, insertFault, selectFault, deleteFault) ==
    LET ins == insert_message(test_message, d, insertFault)
        found == Matching(ins.db.rows, test_message)
    IN  IF ~ins.db.dir \/ selectFault = "connect"
        THEN [inserted |-> ins.ok, deleted |-> FALSE, db |-> ins.db, conns |-> ins.conns]
        ELSE IF ~ins.db.table \/ selectFault = "execute" \/ found = <<>>
        THEN [inserted |-> ins.ok, deleted |-> FALSE, db |-> ins.db,
              conns |-> ins.conns + 1]
        ELSE LET del == delete_message(found[1].id, ins.db, deleteFault, Len(found) >= 2)
             IN  [inserted |-> ins.ok, deleted |-> del.ok, db |-> del.db,
                  conns |-> ins.conns + 1 + del.conns]

(***************************************************************************)
(* State.                                                                  *)
(*   db_path      the path every call is given                             *)
(*   db           the database file at db_path                             *)
(*   openConns    connections opened and neither closed nor finalized      *)
(*   lastOp       what the last call that returned did                     *)
(*   persisted    the ids given to the rows inserted since the table was   *)
(*                last dropped, in insertion order                         *)
(*   nWellFormed  insert_message calls with a well-formed message on the   *)
(*                table since it was last dropped                          *)
(*   dbErrors     those of them that met a database error                  *)
(***************************************************************************)
Idle ==
    [op |-> "none", arg |-> "-", ok |-> TRUE, raised |-> FALSE, dbError |-> FALSE,
     existed |-> FALSE, before |-> 0, after |-> 0, same |-> TRUE, result |-> <<>>]

Returned(op, arg, ok, dbError, before, after) ==
    [Idle EXCEPT !.op = op, !.arg = arg, !.ok = ok, !.dbError = dbError,
                 !.existed = before.table,
                 !.before = Len(before.rows), !.after = Len(after.rows),
                 !.same = (before.rows = after.rows /\ before.table = after.table)]

SinkInit ==
    /\ db_path \in DbPaths
    /\ db = EmptyDb(db_path)
    /\ openConns = 0
    /\ lastOp = Idle
    /\ persisted = <<>>
    /\ nWellFormed = 0
    /\ dbErrors = 0

History(wellFormed, failed, out) ==
    /\ nWellFormed' = IF wellFormed THEN nWellFormed + 1 ELSE nWellFormed
    /\ dbErrors' = IF wellFormed /\ failed THEN dbErrors + 1 ELSE dbErrors
    /\ persisted' = IF Len(out.rows) > Len(db.rows)
                    THEN Append(persisted, out.rows[Len(out.rows)].id)
                    ELSE persisted

InitDb(fault) ==
    LET out == init_db(db_path, db, fault)
        kept == out.db.table /\ ~out.ok
    IN  /\ openConns + out.conns <= MaxOpenConns
        /\ db' = out.db
        /\ openConns' = openConns + out.conns
        /\ lastOp' = Returned("init_db", "-", out.ok, fault # "none", db, out.db)
        /\ persisted' = IF kept THEN persisted ELSE <<>>
        /\ nWellFormed' = IF kept THEN nWellFormed ELSE 0
        /\ dbErrors' = IF kept THEN dbErrors ELSE 0
        /\ UNCHANGED <<db_path, configVars>>

InsertMessage(name, fault) ==
    LET message == MessageOf(name)
        out == insert_message(message, db, fault)
        wellFormed == WellFormed(message) /\ db.table
    IN  /\ wellFormed => nWellFormed < MaxCalls
        /\ openConns + out.conns <= MaxOpenConns
        /\ db' = out.db
        /\ openConns' = openConns + out.conns
        /\ lastOp' = Returned("insert_message", name, out.ok, fault # "none", db, out.db)
        /\ History(wellFormed, fault # "none", out.db)
        /\ UNCHANGED <<db_path, configVars>>

DeleteMessage(message_id, fault) ==
    LET out == delete_message(message_id, db, fault, FALSE)
    IN  /\ openConns + out.conns <= MaxOpenConns
        /\ db' = out.db
        /\ openConns' = openConns + out.conns
        /\ lastOp' = Returned("delete_message", "-", out.ok, fault # "none", db, out.db)
        /\ UNCHANGED <<db_path, persisted, nWellFormed, dbErrors, configVars>>

Query(op, frame, fault) ==
    /\ openConns + frame.conns <= MaxOpenConns
    /\ openConns' = openConns + frame.conns
    /\ lastOp' = [Returned(op, "-", frame.ok, fault # "none", db, db)
                    EXCEPT !.result = frame.df.rows]
    /\ UNCHANGED <<db_path, db, persisted, nWellFormed, dbErrors, configVars>>

GetAllMessages(fault) ==
    Query("get_all_messages", get_all_messages(db, fault), fault)

GetKeywordsByFrequency(top_n, fault) ==
    \E frame \in get_keywords_by_frequency(db, top_n, fault) :
        Query("get_keywords_by_frequency", frame, fault)

GetMessagesByCategory(category, fault) ==
    Query("get_messages_by_category", get_messages_by_category(db, category, fault), fault)

GetMessagesInTimeRange(start_time, end_time, fault) ==
    Query("get_messages_in_time_range",
          get_messages_in_time_range(db, start_time, end_time, fault), fault)

\* Lines 221-224: df = get_all_messages(...), then one analytic on df.
Analyze(op, frame, outcomes, fault) ==
    \E out \in outcomes :
        /\ openConns + frame.conns <= MaxOpenConns
        /\ openConns' = openConns + frame.conns
        /\ lastOp' = [Returned(op, "-", frame.ok /\ ~out.raised, fault # "none", db, db)
                        EXCEPT !.raised = out.raised, !.result = out.result]
        /\ UNCHANGED <<db_path, db, persisted, nWellFormed, dbErrors, configVars>>

AnalyzeKeywordTrends(fault) ==
    LET frame == get_all_messages(db, fault)
    IN  Analyze("analyze_keyword_trends", frame, analyze_keyword_trends(frame.df), fault)

AnalyzeCategoryTrends(fault) ==
    LET frame == get_all_messages(db, fault)
    IN  Analyze("analyze_category_trends", frame, analyze_category_trends(frame.df), fault)

AnalyzeAuthorTrends(fault) ==
    LET frame == get_all_messages(db, fault)
    IN  Analyze("analyze_author_trends", frame, analyze_author_trends(frame.df), fault)

\* Lines 200-218 of main, run against db_path.
MainRoundTrip(insertFault, selectFault, deleteFault) ==
    LET out == main_round_trip(db, insertFault, selectFault, deleteFault)
        anyFault == insertFault # "none" \/ selectFault # "none" \/ deleteFault # "none"
    IN  /\ db.table => nWellFormed < MaxCalls
        /\ openConns + out.conns <= MaxOpenConns
        /\ db' = out.db
        /\ openConns' = openConns + out.conns
        /\ lastOp' = Returned("main_round_trip", "test_message",
                              out.inserted /\ out.deleted, anyFault, db, out.db)
        /\ History(db.table, insertFault # "none",
                   insert_message(test_message, db, insertFault).db)
        /\ UNCHANGED <<db_path, configVars>>

\* Lines 183-184: config.get_base_data_path is the function, not its result, and
\* function / str raises TypeError before init_db is reached.
Main ==
    /\ lastOp' = [Idle EXCEPT !.op = "main", !.ok = FALSE, !.raised = TRUE]
    /\ UNCHANGED <<db_path, db, openConns, persisted, nWellFormed, dbErrors, configVars>>

\* The interpreter finalizes the connections no longer referenced, closing them.
Finalize ==
    /\ openConns > 0
    /\ openConns' = 0
    /\ UNCHANGED <<db_path, db, lastOp, persisted, nWellFormed, dbErrors, configVars>>

(***************************************************************************)
(* utils/utils_config.py.                                                  *)
(***************************************************************************)
ConfigKeys == {"MESSAGE_INTERVAL_SECONDS", "POSTGRES_PORT", "POSTGRES_PASSWORD",
               "BUZZ_TOPIC"}

\* What an environment variable can hold; set = FALSE is an unset variable.
Unset == [set |-> FALSE, v |-> ""]

EnvTexts == {"5432", " 7 ", "abc", "", "s3cret"}

EnvValues == {Unset} \cup {[set |-> TRUE, v |-> s] : s \in EnvTexts}

\* The getters, lines 63-68 and 100-113.
Getters ==
    {[name |-> "get_kafka_topic", key |-> "BUZZ_TOPIC",
      default |-> PyStr("buzzline"), type |-> "str", redact |-> FALSE],
     [name |-> "get_message_interval_seconds", key |-> "MESSAGE_INTERVAL_SECONDS",
      default |-> PyInt("5"), type |-> "int", redact |-> FALSE],
     [name |-> "get_postgres_port", key |-> "POSTGRES_PORT",
      default |-> PyInt("5432"), type |-> "int", redact |-> FALSE],
     [name |-> "get_postgres_password", key |-> "POSTGRES_PASSWORD",
      default |-> PyStr("your_password"), type |-> "str", redact |-> TRUE]}

\* os.getenv(key, fallback)
getenv(env, key, fallback) == IF env[key].set THEN env[key].v ELSE fallback

\* str(default): the text of an int, a str itself.
StrOf(pv) == pv.v

\* The texts int() accepts (surrounding whitespace is stripped), and its result.
IntText == {"5", "5432", " 7 "}

IntOfText(s) ==
    CASE s = "5"    -> "5"
      [] s = "5432" -> "5432"
      [] s = " 7 "  -> "7"

\* type_(value): [error, value]; int() raises ValueError on any other text.
Convert(type, s) ==
    IF type = "str" THEN [error |-> FALSE, value |-> PyStr(s)]
    ELSE IF s \in IntText THEN [error |-> FALSE, value |-> PyInt(IntOfText(s))]
    ELSE [error |-> TRUE, value |-> PyNone]

\* _get_config_value, lines 37-49: [raised, value].
get_config_value(env, key, default, type, redact) ==
    LET converted == Convert(type, getenv(env, key, StrOf(default)))
    IN  IF converted.error THEN [raised |-> FALSE, value |-> default]
        ELSE IF redact /\ key = "POSTGRES_PASSWORD"
             THEN [raised |-> FALSE, value |-> PyStr("[REDACTED]")]
        ELSE [raised |-> FALSE, value |-> converted.value]

NoConfig == [getter |-> "none", key |-> "-", raised |-> FALSE, value |-> PyNone]

ConfigInit ==
    /\ environ \in [ConfigKeys -> EnvValues]
    /\ lastConfig = NoConfig

GetConfig(g) ==
    LET out == get_config_value(environ, g.key, g.default, g.type, g.redact)
    IN  /\ lastConfig' = [getter |-> g.name, key |-> g.key,
                          raised |-> out.raised, value |-> out.value]
        /\ UNCHANGED <<environ, sinkVars>>

(***************************************************************************)
(* Specifications: the sink under any caller, and the configuration        *)
(* getters under any environment.                                          *)
(***************************************************************************)
RowIds == 1..(MaxCalls + 1)

Categories == {PyStr("humor"), PyNone}

TopNs == {1, DefaultTopN}

Init ==
    /\ SinkInit
    /\ environ = [k \in ConfigKeys |-> Unset]
    /\ lastConfig = NoConfig

Next ==
    \/ \E fault \in InitFaults : InitDb(fault)
    \/ \E name \in MessageNames, fault \in WriteFaults : InsertMessage(name, fault)
    \/ \E message_id \in RowIds, fault \in WriteFaults : DeleteMessage(message_id, fault)
    \/ \E fault \in ReadFaults : GetAllMessages(fault)
    \/ \E top_n \in TopNs, fault \in ReadFaults : GetKeywordsByFrequency(top_n, fault)
    \/ \E category \in Categories, fault \in ReadFaults :
          GetMessagesByCategory(category, fault)
    \/ \E start_time, end_time \in Timestamps, fault \in ReadFaults :
          GetMessagesInTimeRange(start_time, end_time, fault)
    \/ \E fault \in ReadFaults : AnalyzeKeywordTrends(fault)
    \/ \E fault \in ReadFaults : AnalyzeCategoryTrends(fault)
    \/ \E fault \in ReadFaults : AnalyzeAuthorTrends(fault)
    \/ \E insertFault \in WriteFaults, selectFault \in ReadFaults,
          deleteFault \in WriteFaults :
          MainRoundTrip(insertFault, selectFault, deleteFault)
    \/ Main
    \/ Finalize

Spec == Init /\ [][Next]_vars

ConfigSpecInit ==
    /\ ConfigInit
    /\ db_path = "data/buzz.sqlite"
    /\ db = EmptyDb(db_path)
    /\ openConns = 0
    /\ lastOp = Idle
    /\ persisted = <<>>
    /\ nWellFormed = 0
    /\ dbErrors = 0

ConfigNext == \E g \in Getters : GetConfig(g)

ConfigSpec == ConfigSpecInit /\ [][ConfigNext]_vars

(***************************************************************************)
(* Properties.                                                             *)
(***************************************************************************)
RowIdsOf(rows) == {rows[i].id : i \in 1..Len(rows)}

C2_InitResets ==
    (lastOp.op = "init_db" /\ ~lastOp.dbError)
        => (db.table /\ db.rows = <<>> /\ ~lastOp.raised)

\* C3: a failure of init_db to create the table propagates to the caller.
C3_InitFailurePropagates ==
    (lastOp.op = "init_db" /\ ~lastOp.ok) => lastOp.raised

\* C4 as stated: on an initialized sink the number of records added by a sequence
\* of insert_message calls equals the number of well-formed messages in it.
C4_CountEqualsWellFormed ==
    db.table => Len(persisted) = nWellFormed

\* C4 as amended: no insert_message call raises; a call that succeeds adds
\* exactly one record; a call that fails leaves the stored records unchanged; the
\* number of records added equals the number of well-formed messages less those
\* whose call met a database error.
C4_PersistIsolated ==
    /\ lastOp.op = "insert_message" =>
          /\ ~lastOp.raised
          /\ lastOp.ok => lastOp.after = lastOp.before + 1
          /\ ~lastOp.ok => lastOp.same
    /\ db.table => Len(persisted) = nWellFormed - dbErrors

\* A well-formed call has failed on a database error, another has stored its
\* record, and the last call was an insert_message that failed.
C4_Witness ==
    /\ dbErrors >= 1
    /\ Len(persisted) >= 1
    /\ lastOp.op = "insert_message"
    /\ ~lastOp.ok
    /\ lastOp.existed

\* C5: after any sink operation has returned, no connection it opened is still
\* open.
C5_NoOpenConnection ==
    lastOp.op \notin {"none", "main"} => openConns = 0

TrendColumn(op) ==
    CASE op = "analyze_keyword_trends"  -> "keyword_mentioned"
      [] op = "analyze_category_trends" -> "category"
      [] op = "analyze_author_trends"   -> "author"

RECURSIVE SumCounts(_)
SumCounts(entries) ==
    IF entries = <<>> THEN 0 ELSE Head(entries).count + SumCounts(Tail(entries))

\* C6: on the records of the sink each analytic returns a mapping whose keys are
\* the distinct values of the grouped field, whose values are the numbers of
\* records carrying them (summing to the record count), in descending order of
\* count.
C6_TrendsCountEveryRecord ==
    (/\ lastOp.op \in {"analyze_keyword_trends", "analyze_category_trends",
                       "analyze_author_trends"}
     /\ lastOp.existed
     /\ ~lastOp.dbError)
        => LET col == TrendColumn(lastOp.op)
               res == lastOp.result
           IN  /\ ~lastOp.raised
               /\ {res[i].key : i \in 1..Len(res)}
                     = {db.rows[i][col] : i \in 1..Len(db.rows)}
               /\ \A i \in 1..Len(res) :
                     res[i].count = CountOf(db.rows, col, res[i].key)
               /\ SumCounts(res) = Len(db.rows)
               /\ \A i \in 1..(Len(res) - 1) : res[i].count >= res[i + 1].count

AbsentKey(name) ==
    CASE name = "no_message"           -> "message"
      [] name = "no_author"            -> "author"
      [] name = "no_timestamp"         -> "timestamp"
      [] name = "no_category"          -> "category"
      [] name = "no_sentiment"         -> "sentiment"
      [] name = "no_keyword_mentioned" -> "keyword_mentioned"
      [] name = "no_message_length"    -> "message_length"

DefaultOf(col) ==
    CASE col = "sentiment"      -> [t |-> "real", v |-> "0.0"]
      [] col = "message_length" -> [t |-> "integer", v |-> "0"]
      [] OTHER                  -> [t |-> "text", v |-> ""]

\* C7: a record in which one of the seven fields is absent is still persisted,
\* the absent field replaced by its default.
C7_AbsentFieldDefaulted ==
    (/\ lastOp.op = "insert_message"
     /\ lastOp.arg \in {"no_message", "no_author", "no_timestamp", "no_category",
                        "no_sentiment", "no_keyword_mentioned", "no_message_length"}
     /\ lastOp.existed
     /\ ~lastOp.dbError)
        => /\ lastOp.ok
           /\ lastOp.after = lastOp.before + 1
           /\ db.rows # <<>>
           /\ db.rows[Len(db.rows)][AbsentKey(lastOp.arg)]
                 = DefaultOf(AbsentKey(lastOp.arg))

\* C8: every stored record has a numeric sentiment and an integer
\* message_length.
C8_TypeClean ==
    \A i \in 1..Len(db.rows) :
        /\ db.rows[i].sentiment.t \in {"real", "integer"}
        /\ db.rows[i].message_length.t = "integer"

\* C9: between two initializations the ids given on insert are strictly
\* increasing in insertion order, also past ids since deleted, and the rows read
\* in id order are in insertion order.
C9_IdsIncrease ==
    /\ \A i, j \in 1..Len(persisted) : i < j => persisted[i] < persisted[j]
    /\ RowIdsOf(db.rows) \subseteq {persisted[i] : i \in 1..Len(persisted)}
    /\ \A i, j \in 1..Len(db.rows) : i < j => db.rows[i].id < db.rows[j].id

\* The row with the largest id was deleted and a row inserted after that.
C9_Witness ==
    /\ Len(persisted) >= 2
    /\ persisted[Len(persisted) - 1] \notin RowIdsOf(db.rows)
    /\ persisted[Len(persisted)] \in RowIdsOf(db.rows)
    /\ lastOp.op = "insert_message"

GetterNamed(name) == CHOOSE g \in Getters : g.name = name

\* C10: a getter returns the environment variable converted to the declared type
\* when it is set and convertible, the declared default otherwise, and does not
\* raise.
C10_ValueOrDefault ==
    lastConfig.getter # "none" =>
        LET g == GetterNamed(lastConfig.getter)
            converted == Convert(g.type, environ[g.key].v)
        IN  /\ ~lastConfig.raised
            /\ lastConfig.value = IF environ[g.key].set /\ ~converted.error
                                  THEN converted.value
                                  ELSE g.default

====
